---- MODULE Spec2Model ----
(***************************************************************************)
(* Model of generate_display.py: the spending aggregation                  *)
(* (calculate_spending), the amount formatter (format_amount) and the font *)
(* resolution and the drawing of generate_image.                           *)
(*                                                                         *)
(* Dates are proleptic Gregorian ordinals, as datetime.date.toordinal()    *)
(* gives them; amounts are exact integers (whole cents); strings are       *)
(* sequences of one-character strings.                                     *)
(***************************************************************************)
EXTENDS Integers, Sequences, FiniteSets, TLC

VARIABLES
    \* calculate_spending
    today,        \* datetime.now(TIMEZONE).date()
    txns,         \* the transactions argument
    pc,           \* "start", "loop", "done" (returned), "error" (raised)
    i,            \* position of the for loop in txns (1-based)
    week_start, month_start,
    day_total, week_total, month_total,
    \* format_amount
    amount,       \* the argument, in whole cents
    fpc,          \* "call", "done"
    formatted,    \* the returned string
    \* generate_image, font resolution
    exists,       \* which font files exist once download_font has run
    broken,       \* the <<file, size>> loads of the preferred family that raise
    gpc,          \* "preferred", "system", "builtin", "backfill", "resolved",
                  \* then "weather", "text", "art", "save", "saved" or "raised"
    font_label, font_small, font_medium, font_large, font_weather,
    \* generate_image, drawing
    weather,      \* whether the weather argument is given
    icon,         \* the weather icon file: "missing", "unreadable", "ok"
    char,         \* assets/character.png: "missing", "unreadable", "ok"
    img_size,     \* the size of img
    paints        \* what was painted on img, in order

aggVars == <<today, txns, pc, i, week_start, month_start,
             day_total, week_total, month_total>>

fmtVars == <<amount, fpc, formatted>>

fontVars == <<font_label, font_small, font_medium, font_large, font_weather>>

renderVars == <<weather, icon, char, img_size, paints>>

imgVars == <<exists, broken, gpc, fontVars, renderVars>>

vars == <<aggVars, fmtVars, imgVars>>

----------------------------------------------------------------------------
(* Bounds *)

\* longest transaction list handed to calculate_spending
MaxLen == 2

\* format_amount is applied to every amount from 0 to MaxCents cents
MaxCents == 100200

----------------------------------------------------------------------------
(* datetime.date arithmetic *)

Years == 2023..2026

IsLeap(y) == (y % 4 = 0) /\ ((y % 100 # 0) \/ (y % 400 = 0))

DaysInMonth(y, m) ==
    IF m = 2 THEN (IF IsLeap(y) THEN 29 ELSE 28)
    ELSE IF m \in {4, 6, 9, 11} THEN 30 ELSE 31

DaysBeforeYear(y) ==
    (y - 1) * 365 + ((y - 1) \div 4) - ((y - 1) \div 100) + ((y - 1) \div 400)

RECURSIVE DaysBeforeMonth(_, _)
DaysBeforeMonth(y, m) ==
    IF m = 1 THEN 0 ELSE DaysBeforeMonth(y, m - 1) + DaysInMonth(y, m - 1)

\* date(y, m, d).toordinal()
Ymd2Ord(y, m, d) == DaysBeforeYear(y) + DaysBeforeMonth(y, m) + d

\* date.fromordinal(o).year / .month / .day
YearOf(o) ==
    CHOOSE y \in Years : DaysBeforeYear(y) < o /\ o <= DaysBeforeYear(y + 1)

MonthOf(o) ==
    LET y == YearOf(o)
        rest == o - DaysBeforeYear(y)
    IN CHOOSE m \in 1..12 :
           /\ DaysBeforeMonth(y, m) < rest
           /\ rest <= DaysBeforeMonth(y, m) + DaysInMonth(y, m)

DayOf(o) ==
    LET y == YearOf(o)
    IN o - DaysBeforeYear(y) - DaysBeforeMonth(y, MonthOf(o))

\* date.weekday(): Monday is 0, Sunday is 6
Weekday(o) == (o + 6) % 7

\* variant of WeekStart: the offset added instead of subtracted
WeekStartPlus(t) == t + Weekday(t)

\* today - timedelta(days=today.weekday())
WeekStart(t) == t - Weekday(t)

\* today.replace(day=1)
MonthStart(t) == Ymd2Ord(YearOf(t), MonthOf(t), 1)

\* datetime.strptime(s, '%Y-%m-%d') of the text "y-m-d": raises ValueError
\* unless the fields name a calendar date
StrptimeOk(ymd) ==
    /\ ymd[1] \in Years
    /\ ymd[2] \in 1..12
    /\ ymd[3] >= 1
    /\ ymd[3] <= DaysInMonth(ymd[1], ymd[2])

Strptime(ymd) == Ymd2Ord(ymd[1], ymd[2], ymd[3])

----------------------------------------------------------------------------
(* Strings *)

sTransfer == <<"T","r","a","n","s","f","e","r">>
sDeposit == <<"D","e","p","o","s","i","t">>
sPayment == <<"P","a","y","m","e","n","t">>
sBankFees == <<"B","a","n","k"," ","F","e","e","s">>
sInterest == <<"I","n","t","e","r","e","s","t">>
sTax == <<"T","a","x">>
sTaxi == <<"T","a","x","i">>
sInternal == <<"I","n","t","e","r","n","a","l">>
sFood == <<"F","o","o","d">>
sCreditCardPayments == <<"C","a","r","d"," ","P","a","y","m","e","n","t","s">>
sTransit == <<"T","r","a","n","s","i","t">>

EXCLUDED_CATEGORIES == {sTransfer, sDeposit, sPayment, sBankFees, sInterest, sTax}

EXCLUDED_TRANSACTION_TYPES == {}

\* Python's  exc in cat  on two str: exc occurs in cat as a contiguous run
StrIn(exc, cat) ==
    \E k \in 0..(Len(cat) - Len(exc)) : SubSeq(cat, k + 1, k + Len(exc)) = exc

----------------------------------------------------------------------------
(* Transactions *)

DateObj(o) == [isstr |-> FALSE, ord |-> o, ymd |-> <<0, 0, 0>>]
DateStr(y, m, d) == [isstr |-> TRUE, ord |-> 0, ymd |-> <<y, m, d>>]
IsoStr(o) == DateStr(YearOf(o), MonthOf(o), DayOf(o))

Num(n) == [kind |-> "num", val |-> n]
NoneAmount == [kind |-> "none", val |-> 0]      \* 'amount': None
MissingAmount == [kind |-> "missing", val |-> 0]  \* no 'amount' key

Cats(list) == [isnone |-> FALSE, list |-> list]
NoneCats == [isnone |-> TRUE, list |-> <<>>]

Txn(d, a, c, ty) == [date |-> d, amount |-> a, category |-> c, transaction_type |-> ty]

\* The reference dates: a Thursday 1st whose week began in January, a Monday,
\* a Sunday, a leap day, a Friday 1st and a Sunday 3rd whose week began in
\* February.
Todays ==
    { Ymd2Ord(2024, 2, 1), Ymd2Ord(2024, 2, 5), Ymd2Ord(2024, 2, 11),
      Ymd2Ord(2024, 2, 29), Ymd2Ord(2024, 3, 1), Ymd2Ord(2024, 3, 3) }

\* The transactions a list is drawn from, given the reference date.
Pool(t) ==
    \* every date shape, with a counted amount
    { Txn(d, Num(700), Cats(<<sFood>>), "place") :
        d \in { DateObj(t - 8), DateObj(t - 3), DateObj(t - 1), DateObj(t),
                DateObj(t + 1), IsoStr(t - 2), DateStr(2024, 2, 30) } }
    \cup
    \* every amount shape, on old and current dates
    { Txn(d, a, Cats(<<>>), "None") :
        d \in { DateObj(t - 8), DateObj(t) },
        a \in { Num(-500), Num(0), Num(2050), NoneAmount, MissingAmount } }
    \cup
    \* every category shape
    { Txn(DateObj(t), Num(1250), c, "place") :
        c \in { NoneCats, Cats(<<sTaxi>>), Cats(<<sTransfer, sInternal>>),
                Cats(<<sFood, sCreditCardPayments>>), Cats(<<sTransit>>) } }
    \cup
    { Txn(DateObj(t), NoneAmount, Cats(<<sTaxi>>), "place"),
      Txn(DateObj(t), NoneAmount, Cats(<<sTransit>>), "place"),
      Txn(DateObj(t), Num(300), Cats(<<sFood>>), "special") }

Lists(t) == UNION { [1..n -> Pool(t)] : n \in 0..MaxLen }

----------------------------------------------------------------------------
(* calculate_spending *)

\* txn_date = txn['date'], parsed when it is a str
DateParses(txn) == txn.date.isstr => StrptimeOk(txn.date.ymd)
TxnDate(txn) == IF txn.date.isstr THEN Strptime(txn.date.ymd) ELSE txn.date.ord

\* category = txn.get('category') or []
Category(txn) == IF txn.category.isnone THEN <<>> ELSE txn.category.list

CategoryExcluded(txn) ==
    \E k \in 1..Len(Category(txn)) : \E exc \in EXCLUDED_CATEGORIES :
        StrIn(exc, Category(txn)[k])

TypeExcluded(txn) == txn.transaction_type \in EXCLUDED_TRANSACTION_TYPES

\* variant of Exclusion: a category must equal an excluded term
ExclusionExactMatch(txn) ==
    IF \E k \in 1..Len(Category(txn)) : Category(txn)[k] \in EXCLUDED_CATEGORIES
    THEN "excluded"
    ELSE IF TypeExcluded(txn) THEN "excluded"
    ELSE IF txn.amount.kind # "num" THEN "TypeError"
    ELSE IF txn.amount.val <= 0 THEN "excluded" ELSE "counted"

\* the if / elif / elif chain: "excluded", "counted", or "TypeError" when
\* amount <= 0 is evaluated on None
Exclusion(txn) ==
    IF CategoryExcluded(txn) THEN "excluded"
    ELSE IF TypeExcluded(txn) THEN "excluded"
    ELSE IF txn.amount.kind # "num" THEN "TypeError"
    ELSE IF txn.amount.val <= 0 THEN "excluded" ELSE "counted"

\* variant of AddToWindows: week_total = amount
AddToWindowsAssignWeek(tot, d, amt, t, ws, ms) ==
    [ day   |-> IF d = t THEN tot.day + amt ELSE tot.day,
      week  |-> IF d >= ws THEN amt ELSE tot.week,
      month |-> IF d >= ms THEN tot.month + amt ELSE tot.month ]

\* variant of AddToWindows: the week test dropped
AddToWindowsNoWeekTest(tot, d, amt, t, ws, ms) ==
    [ day   |-> IF d = t THEN tot.day + amt ELSE tot.day,
      week  |-> tot.week + amt,
      month |-> IF d >= ms THEN tot.month + amt ELSE tot.month ]

\* the three window tests of an  if not excluded:  body
AddToWindows(tot, d, amt, t, ws, ms) ==
    [ day   |-> IF d = t THEN tot.day + amt ELSE tot.day,
      week  |-> IF d >= ws THEN tot.week + amt ELSE tot.week,
      month |-> IF d >= ms THEN tot.month + amt ELSE tot.month ]

\* variant of SkipsOld: no early skip
SkipsNothing(d, ms) == FALSE

\* if txn_date < month_start: continue
SkipsOld(d, ms) == d < ms

Totals == [day |-> day_total, week |-> week_total, month |-> month_total]

\* the state of calculate_spending when it is not the function under study
IdleAgg ==
    /\ today = Ymd2Ord(2024, 2, 1)
    /\ txns = <<>>
    /\ pc = "idle"
    /\ i = 1
    /\ week_start = today
    /\ month_start = today
    /\ day_total = 0
    /\ week_total = 0
    /\ month_total = 0

\* every day of 2024 and 2025
AllDays == Ymd2Ord(2024, 1, 1)..Ymd2Ord(2025, 12, 31)

\* the call on an empty list, on every day
InitDates ==
    /\ today \in AllDays
    /\ txns = <<>>
    /\ pc = "start"
    /\ i = 1
    /\ week_start = today
    /\ month_start = today
    /\ day_total = 0
    /\ week_total = 0
    /\ month_total = 0

InitAgg ==
    /\ today \in Todays
    /\ txns \in Lists(today)
    /\ pc = "start"
    /\ i = 1
    /\ week_start = today
    /\ month_start = today
    /\ day_total = 0
    /\ week_total = 0
    /\ month_total = 0

Begin ==
    /\ pc = "start"
    /\ week_start' = WeekStart(today)
    /\ month_start' = MonthStart(today)
    /\ day_total' = 0
    /\ week_total' = 0
    /\ month_total' = 0
    /\ i' = 1
    /\ pc' = "loop"
    /\ UNCHANGED <<today, txns, fmtVars, imgVars>>

InLoop == pc = "loop" /\ i <= Len(txns)

Raise ==
    /\ pc' = "error"
    /\ UNCHANGED <<today, txns, i, week_start, month_start,
                   day_total, week_total, month_total, fmtVars, imgVars>>

Continue ==
    /\ i' = i + 1
    /\ UNCHANGED <<today, txns, pc, week_start, month_start,
                   day_total, week_total, month_total, fmtVars, imgVars>>

\* strptime raises ValueError
DateError ==
    /\ InLoop
    /\ ~DateParses(txns[i])
    /\ Raise

SkipOld ==
    /\ InLoop
    /\ DateParses(txns[i])
    /\ SkipsOld(TxnDate(txns[i]), month_start)
    /\ Continue

\* txn['amount'] raises KeyError
AmountKeyError ==
    /\ InLoop
    /\ DateParses(txns[i])
    /\ ~SkipsOld(TxnDate(txns[i]), month_start)
    /\ txns[i].amount.kind = "missing"
    /\ Raise

\* None <= 0 raises TypeError
AmountTypeError ==
    /\ InLoop
    /\ DateParses(txns[i])
    /\ ~SkipsOld(TxnDate(txns[i]), month_start)
    /\ txns[i].amount.kind # "missing"
    /\ Exclusion(txns[i]) = "TypeError"
    /\ Raise

Exclude ==
    /\ InLoop
    /\ DateParses(txns[i])
    /\ ~SkipsOld(TxnDate(txns[i]), month_start)
    /\ txns[i].amount.kind # "missing"
    /\ Exclusion(txns[i]) = "excluded"
    /\ Continue

Count ==
    /\ InLoop
    /\ DateParses(txns[i])
    /\ ~SkipsOld(TxnDate(txns[i]), month_start)
    /\ txns[i].amount.kind # "missing"
    /\ Exclusion(txns[i]) = "counted"
    /\ LET tot == AddToWindows(Totals, TxnDate(txns[i]), txns[i].amount.val,
                               today, week_start, month_start)
       IN /\ day_total' = tot.day
          /\ week_total' = tot.week
          /\ month_total' = tot.month
    /\ i' = i + 1
    /\ UNCHANGED <<today, txns, pc, week_start, month_start, fmtVars, imgVars>>

Return ==
    /\ pc = "loop"
    /\ i > Len(txns)
    /\ pc' = "done"
    /\ UNCHANGED <<today, txns, i, week_start, month_start,
                   day_total, week_total, month_total, fmtVars, imgVars>>

\* calculate_spending as a function of its argument and of the clock: the
\* loop from position k on, with the totals so far and the boundaries ws, ms
RECURSIVE CalcFrom(_, _, _, _, _, _)
CalcFrom(list, k, tot, t, ws, ms) ==
    IF k > Len(list) THEN [status |-> "done", totals |-> tot]
    ELSE IF ~DateParses(list[k]) THEN [status |-> "error", totals |-> tot]
    ELSE IF SkipsOld(TxnDate(list[k]), ms) THEN CalcFrom(list, k + 1, tot, t, ws, ms)
    ELSE IF list[k].amount.kind = "missing" THEN [status |-> "error", totals |-> tot]
    ELSE IF Exclusion(list[k]) = "TypeError" THEN [status |-> "error", totals |-> tot]
    ELSE IF Exclusion(list[k]) = "excluded" THEN CalcFrom(list, k + 1, tot, t, ws, ms)
    ELSE CalcFrom(list, k + 1,
                  AddToWindows(tot, TxnDate(list[k]), list[k].amount.val, t, ws, ms),
                  t, ws, ms)

CalcSpending(list, t) ==
    LET ws == WeekStart(t)
        ms == MonthStart(t)
    IN CalcFrom(list, 1, [day |-> 0, week |-> 0, month |-> 0], t, ws, ms)

----------------------------------------------------------------------------
(* The filter and the window rules as the specification words them *)

\* 4.1: any category contains any excluded term, or the kind is excluded, or
\* the amount is not positive
Filtered(txn) ==
    \/ \E k \in 1..Len(Category(txn)) : \E exc \in EXCLUDED_CATEGORIES :
          \E a \in 1..Len(Category(txn)[k]) : \E b \in a..Len(Category(txn)[k]) :
              SubSeq(Category(txn)[k], a, b) = exc
    \/ txn.transaction_type \in EXCLUDED_TRANSACTION_TYPES
    \/ (txn.amount.kind = "num" /\ txn.amount.val <= 0)

\* unparseable date string, or missing/absent amount
Malformed(txn) == ~DateParses(txn) \/ txn.amount.kind # "num"

WellFormed(list) == \A k \in 1..Len(list) : ~Malformed(list[k])

\* 4.2 and 4.3 with no early skip: day iff date = today, week iff
\* date >= week_start, month iff date >= month_start
RECURSIVE RefAggregate(_, _, _)
RefAggregate(list, k, t) ==
    IF k > Len(list) THEN [day |-> 0, week |-> 0, month |-> 0]
    ELSE LET rest == RefAggregate(list, k + 1, t)
             d == TxnDate(list[k])
             a == IF Filtered(list[k]) THEN 0 ELSE list[k].amount.val
         IN [ day   |-> rest.day + (IF d = t THEN a ELSE 0),
              week  |-> rest.week + (IF d >= WeekStart(t) THEN a ELSE 0),
              month |-> rest.month + (IF d >= MonthStart(t) THEN a ELSE 0) ]

Permute(list, p) == [k \in 1..Len(list) |-> list[p[k]]]

----------------------------------------------------------------------------
(* Claims on calculate_spending *)

\* C1 (as claimed): on every well-formed list the returned totals equal those
\* of the aggregator that applies the window rules with no early skip of
\* transactions dated before month_start.
C1_EarlySkipIsNoChange ==
    (pc = "done" /\ WellFormed(txns)) => Totals = RefAggregate(txns, 1, today)

\* C2: a transaction that the filter excludes (category substring, excluded
\* type, or amount <= 0) leaves day, week and month totals unchanged; a
\* transaction with a numeric amount dated on or after month_start that meets
\* none of the three conditions is counted: its amount is added to the month
\* total and the call does not fail on it.
C2_FilterDecides ==
    [][ InLoop =>
          /\ Filtered(txns[i]) =>
                /\ day_total' = day_total
                /\ week_total' = week_total
                /\ month_total' = month_total
          /\ ( /\ DateParses(txns[i])
               /\ TxnDate(txns[i]) >= month_start
               /\ txns[i].amount.kind = "num"
               /\ ~Filtered(txns[i]) ) =>
                /\ month_total' = month_total + txns[i].amount.val
                /\ pc' = "loop"
                /\ i' = i + 1 ]_vars

\* a list whose first transaction is excluded by substring only ("Taxi"
\* contains "Tax") and whose second is counted, after both were folded in
C2_Witness ==
    /\ pc = "done"
    /\ Len(txns) = 2
    /\ Category(txns[1]) = <<sTaxi>>
    /\ txns[1].amount.kind = "num" /\ txns[1].amount.val > 0
    /\ ~Filtered(txns[2]) /\ txns[2].amount.kind = "num"
    /\ TxnDate(txns[2]) >= month_start
    /\ month_total = txns[2].amount.val

\* C3: the totals satisfy month >= week >= day, at the return and after each
\* transaction is folded in.
C3_MonthWeekDayOrdered ==
    /\ month_total >= week_total
    /\ week_total >= day_total

\* a returned result with three different totals, from a list holding a
\* transaction dated before month_start but inside the week
C3_Witness ==
    /\ pc = "done"
    /\ \E k \in 1..Len(txns) :
          /\ DateParses(txns[k])
          /\ TxnDate(txns[k]) < month_start
          /\ TxnDate(txns[k]) >= week_start
          /\ txns[k].amount.kind = "num" /\ txns[k].amount.val > 0
    /\ month_total > 0
    /\ week_total = month_total

\* C4 (as claimed): a list holding a malformed transaction (unparseable date
\* string, missing or absent amount) never returns totals.
C4_MalformedAlwaysFails ==
    pc = "done" => WellFormed(txns)

\* C6 (as claimed): a transaction is added to the week total only if
\* week_start <= txn_date <= today.
C6_WeekOnlyUpToToday ==
    [][ week_total' # week_total =>
          /\ InLoop
          /\ week_start <= TxnDate(txns[i])
          /\ TxnDate(txns[i]) <= today ]_vars

\* C6 (amended): a transaction is added to the week total only if its date
\* is on or after week_start and on or after month_start; there is no upper
\* limit on the date.
C6_WeekFromWeekStart ==
    [][ week_total' # week_total =>
          /\ InLoop
          /\ DateParses(txns[i])
          /\ TxnDate(txns[i]) >= week_start
          /\ TxnDate(txns[i]) >= month_start
          /\ week_total' = week_total + txns[i].amount.val ]_vars

\* a transaction dated after today was added to the week total
C6_Witness ==
    /\ pc = "done"
    /\ Len(txns) = 1
    /\ TxnDate(txns[1]) > today
    /\ week_total = txns[1].amount.val
    /\ week_total > 0

\* C7: the result does not depend on the order of the list: every
\* permutation of the list gives the totals the call returned, and fails when
\* the call failed.
C7_OrderIndependent ==
    /\ pc = "done" =>
          \A p \in Permutations(1..Len(txns)) :
              CalcSpending(Permute(txns, p), today) =
                  [status |-> "done", totals |-> Totals]
    /\ pc = "error" =>
          \A p \in Permutations(1..Len(txns)) :
              CalcSpending(Permute(txns, p), today).status = "error"

\* two different counted transactions in different windows were summed
C7_Witness ==
    /\ pc = "done"
    /\ Len(txns) = 2
    /\ txns[1] # txns[2]
    /\ Exclusion(txns[1]) = "counted"
    /\ Exclusion(txns[2]) = "counted"
    /\ TxnDate(txns[1]) = today
    /\ TxnDate(txns[2]) < today
    /\ TxnDate(txns[2]) >= month_start
    /\ month_total = txns[1].amount.val + txns[2].amount.val
    /\ day_total = txns[1].amount.val


\* C5 (as claimed): month_start <= week_start <= today for every reference
\* date.
C5_MonthWeekTodayOrdered ==
    pc # "start" => (month_start <= week_start /\ week_start <= today)

\* C5 (amended): week_start <= today and month_start <= today for every
\* reference date; month_start <= week_start holds exactly when the Monday on
\* or before today lies in today's month.
C5_BoundariesNotAfterToday ==
    pc # "start" =>
        /\ week_start <= today
        /\ month_start <= today
        /\ (month_start <= week_start) <=>
              (MonthOf(week_start) = MonthOf(today) /\ YearOf(week_start) = YearOf(today))

\* the boundaries were computed on a day whose week began in the month before
C5_Witness ==
    /\ pc = "loop"
    /\ week_start < month_start
    /\ week_start < today

----------------------------------------------------------------------------
(* format_amount *)

IdleFmt ==
    /\ amount = 0
    /\ fpc = "idle"
    /\ formatted = <<>>

\* amounts beyond MaxCents: more digits, ties, one and two separators
LargeAmounts ==
    { 123450, 123550, 999949, 999950, 1000000, 99999949, 99999950, 100000000,
      123456789, 999999950 }

InitFmt ==
    /\ amount \in (0..MaxCents) \cup LargeAmounts
    /\ fpc = "call"
    /\ formatted = <<>>

DigitChar(d) == <<"0", "1", "2", "3", "4", "5", "6", "7", "8", "9">>[d + 1]

\* variant of RoundHalfEven: the fraction dropped
RoundDown(c) == c \div 100

\* the '.0f' presentation of a float holding c cents: the nearest whole
\* number, a tie going to the even one
RoundHalfEven(c) ==
    LET q == c \div 100
        r == c % 100
    IN IF r > 50 \/ (r = 50 /\ q % 2 = 1) THEN q + 1 ELSE q

\* the decimal digits of n
RECURSIVE Digits(_)
Digits(n) == IF n < 10 THEN <<DigitChar(n)>>
             ELSE Append(Digits(n \div 10), DigitChar(n % 10))

\* the ',' option: the digits in groups of three from the right
RECURSIVE Grouped(_)
Grouped(n) ==
    IF n < 1000 THEN Digits(n)
    ELSE Grouped(n \div 1000) \o <<",">> \o
         <<DigitChar((n \div 100) % 10), DigitChar((n \div 10) % 10), DigitChar(n % 10)>>

\* variant of AtLeastThousand: > in place of >=
MoreThanThousand(c) == c > 1000 * 100

\* amount >= 1000
AtLeastThousand(c) == c >= 1000 * 100

\* return f"${amount:,.0f}"
FormatGrouped ==
    /\ fpc = "call"
    /\ AtLeastThousand(amount)
    /\ formatted' = <<"$">> \o Grouped(RoundHalfEven(amount))
    /\ fpc' = "done"
    /\ UNCHANGED <<amount, aggVars, imgVars>>

\* return f"${amount:.0f}"
FormatPlain ==
    /\ fpc = "call"
    /\ ~AtLeastThousand(amount)
    /\ formatted' = <<"$">> \o Digits(RoundHalfEven(amount))
    /\ fpc' = "done"
    /\ UNCHANGED <<amount, aggVars, imgVars>>

\* the number a run of digit characters and separators spells
RECURSIVE Spelled(_)
Spelled(str) ==
    IF str = <<>> THEN 0
    ELSE LET last == str[Len(str)]
             init == SubSeq(str, 1, Len(str) - 1)
         IN IF last = "," THEN Spelled(init)
            ELSE Spelled(init) * 10 +
                 (CHOOSE d \in 0..9 : DigitChar(d) = last)

\* the whole number nearest to c cents, a tie going to the even one
Nearest(c) ==
    CHOOSE n \in {c \div 100, c \div 100 + 1} :
        /\ 100 * n - c <= 50
        /\ c - 100 * n <= 50
        /\ (100 * n - c = 50 \/ c - 100 * n = 50) => n % 2 = 0

\* C8: format_amount returns '$' followed by the amount rounded to zero
\* decimal digits, with a ',' before every group of three digits when the
\* amount is at least 1000 and with no ',' otherwise; format(999) = "$999",
\* format(1000) = "$1,000", format(0) = "$0".
C8_FormatAmount ==
    fpc = "done" =>
        LET body == SubSeq(formatted, 2, Len(formatted))
        IN /\ formatted[1] = "$"
           /\ \A k \in 1..Len(body) : body[k] \in {DigitChar(d) : d \in 0..9} \cup {","}
           /\ Spelled(body) = Nearest(amount)
           /\ amount >= 100000 =>
                 \A k \in 1..Len(body) :
                     (body[k] = ",") <=> ((Len(body) - k + 1) % 4 = 0)
           /\ amount < 100000 => \A k \in 1..Len(body) : body[k] # ","
           /\ (Len(body) > 1) => body[1] # "0"
           /\ amount = 99900 => formatted = <<"$", "9", "9", "9">>
           /\ amount = 100000 => formatted = <<"$", "1", ",", "0", "0", "0">>
           /\ amount = 0 => formatted = <<"$", "0">>

\* format(1000) was returned with its separator
C8_Witness ==
    /\ fpc = "done"
    /\ amount = 100000
    /\ formatted = <<"$", "1", ",", "0", "0", "0">>

HasSeparator(str) == \E k \in 1..Len(str) : str[k] = ","

\* C14 (as claimed): the string holds a thousands separator exactly when the
\* whole-dollar value it displays is at least 1000.
C14_SeparatorIffDisplayedThousand ==
    fpc = "done" =>
        (HasSeparator(formatted) <=>
            Spelled(SubSeq(formatted, 2, Len(formatted))) >= 1000)

\* C14 (amended): the string holds a thousands separator exactly when the
\* unrounded amount is at least 1000; a separator implies a displayed value
\* of at least 1000, and the displayed value is at least 1000 with no
\* separator exactly for the amounts from 999.50 to 999.99, shown as "$1000".
C14_SeparatorIffAmountThousand ==
    fpc = "done" =>
        LET shown == Spelled(SubSeq(formatted, 2, Len(formatted)))
        IN /\ HasSeparator(formatted) <=> amount >= 100000
           /\ HasSeparator(formatted) => shown >= 1000
           /\ (shown >= 1000 /\ ~HasSeparator(formatted)) <=> amount \in 99950..99999
           /\ amount \in 99950..99999 => formatted = <<"$", "1", "0", "0", "0">>

\* 999.50 was formatted: "$1000", no separator
C14_Witness ==
    /\ fpc = "done"
    /\ amount = 99950
    /\ formatted = <<"$", "1", "0", "0", "0">>

----------------------------------------------------------------------------
(* generate_image: font resolution *)

LABEL_SIZE == 36
SMALL_SIZE == 80
MEDIUM_SIZE == 115
LARGE_SIZE == 200
WEATHER_SIZE == 42

\* font_path, font_medium_path, font_semibold_path
PreferredFiles == {"Regular", "Medium", "SemiBold"}

\* serif_paths, in order
serif_paths == <<"LiberationSerif", "Liberation2Serif", "DejaVuSerif">>

FontFiles == PreferredFiles \cup {serif_paths[k] : k \in 1..Len(serif_paths)}

None == [face |-> "None", size |-> 0]

\* ImageFont.truetype(path, size)
Truetype(face, size) == [face |-> face, size |-> size]

\* ImageFont.load_default()
LoadDefault == [face |-> "default", size |-> 0]

Fonts == [label |-> font_label, small |-> font_small, medium |-> font_medium,
          large |-> font_large, weather |-> font_weather]

SetFonts(f) ==
    /\ font_label' = f.label
    /\ font_small' = f.small
    /\ font_medium' = f.medium
    /\ font_large' = f.large
    /\ font_weather' = f.weather

\* the loads of the preferred family: role, file, size
PreferredTable ==
    << <<"label", "Regular", LABEL_SIZE>>,
       <<"small", "Regular", SMALL_SIZE>>,
       <<"weather", "Regular", WEATHER_SIZE>>,
       <<"medium", "Medium", MEDIUM_SIZE>>,
       <<"large", "SemiBold", LARGE_SIZE>> >>

IdleImg ==
    /\ exists = [f \in FontFiles |-> FALSE]
    /\ broken = {}
    /\ weather = FALSE
    /\ icon = "missing"
    /\ char = "missing"
    /\ img_size = <<0, 0>>
    /\ paints = <<>>
    /\ gpc = "idle"
    /\ font_label = None
    /\ font_small = None
    /\ font_medium = None
    /\ font_large = None
    /\ font_weather = None

\* the font files present are any subset; the five fonts start as None
InitImg ==
    /\ exists \in [FontFiles -> BOOLEAN]
    /\ broken \in SUBSET { <<PreferredTable[k][2], PreferredTable[k][3]>> :
                               k \in { j \in 1..Len(PreferredTable) :
                                          exists[PreferredTable[j][2]] } }
    /\ weather \in BOOLEAN
    /\ icon \in (IF weather THEN {"missing", "unreadable", "ok"} ELSE {"missing"})
    /\ char \in {"missing", "unreadable", "ok"}
    /\ img_size = <<0, 0>>
    /\ paints = <<>>
    /\ gpc = "preferred"
    /\ font_label = None
    /\ font_small = None
    /\ font_medium = None
    /\ font_large = None
    /\ font_weather = None

\* the first n assignments of a list of <<role, face, size>> loads, in order
RECURSIVE Loaded(_, _, _)
Loaded(f, loads, n) ==
    IF n = 0 THEN f
    ELSE LET g == Loaded(f, loads, n - 1)
         IN [g EXCEPT ![loads[n][1]] = Truetype(loads[n][2], loads[n][3])]

\* the loads of the first try block, in the order it attempts them
PreferredLoads(ex) ==
    (IF ex["Regular"]
       THEN << <<"label", "Regular", LABEL_SIZE>>,
               <<"small", "Regular", SMALL_SIZE>>,
               <<"weather", "Regular", WEATHER_SIZE>> >>
       ELSE <<>>)
    \o (IF ex["Medium"] THEN << <<"medium", "Medium", MEDIUM_SIZE>> >> ELSE <<>>)
    \o (IF ex["SemiBold"] THEN << <<"large", "SemiBold", LARGE_SIZE>> >> ELSE <<>>)

\* the loads of the second try block: the first path that exists, at the
\* five sizes
SystemLoads(ex) ==
    IF \A k \in 1..Len(serif_paths) : ~ex[serif_paths[k]] THEN <<>>
    ELSE LET first == CHOOSE k \in 1..Len(serif_paths) :
                          /\ ex[serif_paths[k]]
                          /\ \A j \in 1..(k - 1) : ~ex[serif_paths[j]]
             name == serif_paths[first]
         IN << <<"label", name, LABEL_SIZE>>,
               <<"small", name, SMALL_SIZE>>,
               <<"medium", name, MEDIUM_SIZE>>,
               <<"large", name, LARGE_SIZE>>,
               <<"weather", name, WEATHER_SIZE>> >>

\* how many loads of a try block succeed before one raises
LoadsBeforeRaise(loads, br) ==
    IF \A k \in 1..Len(loads) : <<loads[k][2], loads[k][3]>> \notin br
    THEN Len(loads)
    ELSE (CHOOSE k \in 1..Len(loads) :
              /\ <<loads[k][2], loads[k][3]>> \in br
              /\ \A j \in 1..(k - 1) : <<loads[j][2], loads[j][3]>> \notin br) - 1

\* the try block of the preferred family: a load that raises ends the block
\* with the fonts loaded so far
PreferredTier ==
    /\ gpc = "preferred"
    /\ SetFonts(Loaded(Fonts, PreferredLoads(exists),
                       LoadsBeforeRaise(PreferredLoads(exists), broken)))
    /\ gpc' = "system"
    /\ UNCHANGED <<exists, broken, renderVars, aggVars, fmtVars>>

\* if font_label is None:
SystemTierEntered(f) == f.label = None

\* the try block of the system fonts
SystemTier ==
    /\ gpc = "system"
    /\ SystemTierEntered(Fonts)
    /\ \E n \in 0..Len(SystemLoads(exists)) :
          SetFonts(Loaded(Fonts, SystemLoads(exists), n))
    /\ gpc' = "builtin"
    /\ UNCHANGED <<exists, broken, renderVars, aggVars, fmtVars>>

SystemTierSkipped ==
    /\ gpc = "system"
    /\ ~SystemTierEntered(Fonts)
    /\ gpc' = "builtin"
    /\ UNCHANGED <<exists, broken, fontVars, renderVars, aggVars, fmtVars>>

\* if font_label is None: every font becomes load_default()
BuiltinTier ==
    /\ gpc = "builtin"
    /\ font_label = None
    /\ SetFonts([label |-> LoadDefault, small |-> LoadDefault, medium |-> LoadDefault,
                 large |-> LoadDefault, weather |-> LoadDefault])
    /\ gpc' = "backfill"
    /\ UNCHANGED <<exists, broken, renderVars, aggVars, fmtVars>>

BuiltinTierSkipped ==
    /\ gpc = "builtin"
    /\ font_label # None
    /\ gpc' = "backfill"
    /\ UNCHANGED <<exists, broken, fontVars, renderVars, aggVars, fmtVars>>

\* variant of Backfilled: font_weather is left as it is
BackfilledButWeather(f) ==
    LET small == IF f.small = None THEN f.label ELSE f.small
        medium == IF f.medium = None THEN small ELSE f.medium
        large == IF f.large = None THEN medium ELSE f.large
    IN [label |-> f.label, small |-> small, medium |-> medium, large |-> large,
        weather |-> f.weather]

\* the four  if font_x is None: font_x = font_y  statements, in order
Backfilled(f) ==
    LET small == IF f.small = None THEN f.label ELSE f.small
        medium == IF f.medium = None THEN small ELSE f.medium
        large == IF f.large = None THEN medium ELSE f.large
        wthr == IF f.weather = None THEN f.label ELSE f.weather
    IN [label |-> f.label, small |-> small, medium |-> medium, large |-> large,
        weather |-> wthr]

Backfill ==
    /\ gpc = "backfill"
    /\ SetFonts(Backfilled(Fonts))
    /\ gpc' = "resolved"
    /\ UNCHANGED <<exists, broken, renderVars, aggVars, fmtVars>>

Roles == {"label", "small", "medium", "large", "weather"}

\* C9: font resolution always ends, whatever files are present and whichever
\* loads fail, and ends with a font that is not None for each of the five
\* roles.
C9_FontsNeverNone ==
    /\ gpc \in {"preferred", "system", "builtin", "backfill"} =>
          ENABLED (PreferredTier \/ SystemTier \/ SystemTierSkipped \/ BuiltinTier
                   \/ BuiltinTierSkipped \/ Backfill)
    /\ gpc \notin {"preferred", "system", "builtin", "backfill"} =>
          \A r \in Roles : Fonts[r] # None

\* resolution ended after the load of the weather font raised: the regular
\* file gave the label and small fonts only
C9_Witness ==
    /\ gpc = "resolved"
    /\ exists["Regular"]
    /\ font_label = Truetype("Regular", LABEL_SIZE)
    /\ font_small = Truetype("Regular", SMALL_SIZE)
    /\ font_weather = font_label
    /\ font_large = font_small

\* C10 (as claimed): the system tier is entered only when no preferred weight
\* was resolved, and a role holding a font of the preferred family keeps it.
C10_SystemTierOnlyWithoutPreferred ==
    [][ /\ SystemTier => \A r \in Roles : Fonts[r].face \notin PreferredFiles
        /\ \A r \in Roles :
              Fonts[r].face \in PreferredFiles => Fonts[r]' = Fonts[r] ]_vars

----------------------------------------------------------------------------
(* generate_image: drawing *)

WIDTH == 1072
HEIGHT == 1448

\* get_weather_icon: the path of the icon file, or None when it is missing
GetWeatherIcon(ic) == IF ic = "missing" THEN "None" ELSE "path"

\* the icon pasted when its path is given, then the temperature text
WeatherPaints(ic) ==
    (IF GetWeatherIcon(ic) # "None" THEN <<"icon">> ELSE <<>>) \o <<"temp">>

\* the six draw.text calls of the budget text
TextPaints ==
    <<"day_label", "day_amount", "week_label", "week_amount",
      "month_label", "month_amount">>

\* variant of ArtPaints: nothing is drawn again after the composite
ArtPaintsOnly(w, ic) == <<"art">>

\* the try block once character.png is open: the composite over the whole
\* canvas, then the weather and the budget text drawn again
ArtPaints(w, ic) ==
    <<"art">> \o (IF w THEN WeatherPaints(ic) ELSE <<>>) \o TextPaints

\* img = Image.new('L', (WIDTH, HEIGHT), color=232)
NewCanvas ==
    /\ gpc = "resolved"
    /\ img_size' = <<WIDTH, HEIGHT>>
    /\ paints' = <<>>
    /\ gpc' = "weather"
    /\ UNCHANGED <<exists, broken, fontVars, weather, icon, char, aggVars, fmtVars>>

\* if weather:  is false
WeatherSkipped ==
    /\ gpc = "weather"
    /\ ~weather
    /\ gpc' = "text"
    /\ UNCHANGED <<exists, broken, fontVars, renderVars, aggVars, fmtVars>>

\* the icon, when it is there, and the temperature are drawn
WeatherDrawn ==
    /\ gpc = "weather"
    /\ weather
    /\ icon # "unreadable"
    /\ paints' = paints \o WeatherPaints(icon)
    /\ gpc' = "text"
    /\ UNCHANGED <<exists, broken, fontVars, weather, icon, char, img_size,
                   aggVars, fmtVars>>

\* Image.open(icon_path) raises, outside any try block
WeatherIconRaises ==
    /\ gpc = "weather"
    /\ weather
    /\ icon = "unreadable"
    /\ gpc' = "raised"
    /\ UNCHANGED <<exists, broken, fontVars, renderVars, aggVars, fmtVars>>

DrawText ==
    /\ gpc = "text"
    /\ paints' = paints \o TextPaints
    /\ gpc' = "art"
    /\ UNCHANGED <<exists, broken, fontVars, weather, icon, char, img_size,
                   aggVars, fmtVars>>

\* if char_path.exists():  is false
ArtSkipped ==
    /\ gpc = "art"
    /\ char = "missing"
    /\ gpc' = "save"
    /\ UNCHANGED <<exists, broken, fontVars, renderVars, aggVars, fmtVars>>

\* loading character.png raises before img is assigned; the except clause
\* prints and goes on
ArtRaises ==
    /\ gpc = "art"
    /\ char = "unreadable"
    /\ gpc' = "save"
    /\ UNCHANGED <<exists, broken, fontVars, renderVars, aggVars, fmtVars>>

ArtDrawn ==
    /\ gpc = "art"
    /\ char = "ok"
    /\ paints' = paints \o ArtPaints(weather, icon)
    /\ gpc' = "save"
    /\ UNCHANGED <<exists, broken, fontVars, weather, icon, char, img_size,
                   aggVars, fmtVars>>

\* img.save(output_path, 'PNG')
Save ==
    /\ gpc = "save"
    /\ gpc' = "saved"
    /\ UNCHANGED <<exists, broken, fontVars, renderVars, aggVars, fmtVars>>

\* the position of the last paint of x, 0 when x was never painted
LastPaint(x) ==
    IF \A k \in 1..Len(paints) : paints[k] # x THEN 0
    ELSE CHOOSE k \in 1..Len(paints) :
             paints[k] = x /\ \A j \in (k + 1)..Len(paints) : paints[j] # x

\* C12: in every execution that saves an image each of the six text lines is
\* painted, and painted last after the last paint of the character artwork
\* and of the weather icon; the weather overlay is painted last after the
\* artwork.
C12_TextOverWeatherOverArt ==
    gpc = "saved" =>
        /\ \A k \in 1..Len(TextPaints) :
              /\ LastPaint(TextPaints[k]) > 0
              /\ LastPaint(TextPaints[k]) > LastPaint("art")
              /\ LastPaint(TextPaints[k]) > LastPaint("icon")
        /\ LastPaint("icon") > 0 => LastPaint("icon") > LastPaint("art")
        /\ LastPaint("temp") > 0 => LastPaint("temp") > LastPaint("art")

\* an image was saved with the artwork, the icon and the text all painted
C12_Witness ==
    /\ gpc = "saved"
    /\ LastPaint("art") > 0
    /\ LastPaint("icon") > LastPaint("art")
    /\ LastPaint("day_label") > LastPaint("icon")

\* C13 (as claimed): a missing or unreadable weather icon or character file
\* never makes generate_image raise; its overlay is left out and the call
\* reaches the save with a canvas of WIDTH x HEIGHT.
C13_OptionalAssetsNeverFatal ==
    /\ gpc # "raised"
    /\ gpc \in {"save", "saved"} =>
          /\ img_size = <<WIDTH, HEIGHT>>
          /\ icon # "ok" => LastPaint("icon") = 0
          /\ char # "ok" => LastPaint("art") = 0

\* a preferred file is loadable when none of its loads raises
Loadable(face) == \A k \in 1..Len(PreferredTable) :
    PreferredTable[k][2] = face => <<face, PreferredTable[k][3]>> \notin broken

\* C11 (as claimed): every role whose preferred weight file is present and
\* loadable ends resolution holding that file's font at the role's size,
\* whichever other weights are missing or fail to load.
C11_OtherRolesKeepPreferred ==
    gpc = "resolved" =>
        \A k \in 1..Len(PreferredTable) :
            (exists[PreferredTable[k][2]] /\ Loadable(PreferredTable[k][2])) =>
                Fonts[PreferredTable[k][1]] =
                    Truetype(PreferredTable[k][2], PreferredTable[k][3])

----------------------------------------------------------------------------
(* Specifications *)

\* calculate_spending on every list of up to MaxLen transactions
Init == InitAgg /\ IdleFmt /\ IdleImg

Next ==
    \/ Begin
    \/ DateError
    \/ SkipOld
    \/ AmountKeyError
    \/ AmountTypeError
    \/ Exclude
    \/ Count
    \/ Return

Spec == Init /\ [][Next]_vars

\* the window boundaries on every day of two years
NextDates ==
    \/ Begin
    \/ Return

DatesInit == InitDates /\ IdleFmt /\ IdleImg

SpecDates == DatesInit /\ [][NextDates]_vars

\* format_amount on every amount
NextFmt ==
    \/ FormatGrouped
    \/ FormatPlain

FmtInit == IdleAgg /\ InitFmt /\ IdleImg

SpecFmt == FmtInit /\ [][NextFmt]_vars

\* generate_image on every set of font files and optional assets
NextImg ==
    \/ PreferredTier
    \/ SystemTier
    \/ SystemTierSkipped
    \/ BuiltinTier
    \/ BuiltinTierSkipped
    \/ Backfill
    \/ NewCanvas
    \/ WeatherSkipped
    \/ WeatherDrawn
    \/ WeatherIconRaises
    \/ DrawText
    \/ ArtSkipped
    \/ ArtRaises
    \/ ArtDrawn
    \/ Save

ImgInit == IdleAgg /\ IdleFmt /\ InitImg

SpecImg == ImgInit /\ [][NextImg]_vars

====
